---- MODULE Spec2Model ----
(***************************************************************************)
(* The wire protocol of lasersell-stream-proto (src/src/lib.rs): the       *)
(* message types, their serde-derived JSON encoders and decoders, and the  *)
(* compatibility rules (field alias, legacy tag, defaulted fields,         *)
(* omitted options).                                                       *)
(*                                                                         *)
(* A JSON text is modelled by the JSON value it denotes.  A JSON value is  *)
(* a record whose field k names its kind:                                  *)
(*   null, bool b, int n (a literal without fraction or exponent),         *)
(*   float x (a literal with a fraction; x counts halves, 1.5 is x = 3),   *)
(*   str s, arr a (a sequence of values), obj o (a sequence of             *)
(*   <<key, value>> pairs, in text order, duplicates possible).            *)
(* A Rust value is a record of its fields; an enum variant carries its     *)
(* name in the field variant; Option<T> is a sequence of length 0 or 1;    *)
(* Vec<T> is a sequence; f64 is [cls, h] with cls finite (h halves), inf   *)
(* (h the sign) or nan.  Integers are those TLC can hold, so of the        *)
(* integer widths only u16's upper limit lies inside the model; the        *)
(* lower limit 0 of every unsigned type does.                              *)
(***************************************************************************)
EXTENDS Integers, Sequences, FiniteSets, TLC

VARIABLES
    side,       \* which type is exchanged: ClientMessage, ServerMessage, MarketContextMsg
    value,      \* the value the sender constructed
    wire,       \* the text the encoder wrote for it
    edit,       \* how the text the receiver is handed differs from wire
    input,      \* the text the receiver is handed
    decoded,    \* the decoder's result for input
    reencoded,  \* the text the encoder wrote for the decoded value
    pc          \* constructed, encoded, decoded, reencoded

vars == <<side, value, wire, edit, input, decoded, reencoded, pc>>

-----------------------------------------------------------------------------
(* JSON values *)

JNull == [k |-> "null"]

JBool(b) == [k |-> "bool", b |-> b]

JInt(n) == [k |-> "int", n |-> n]

JFloat(x) == [k |-> "float", x |-> x]

JStr(s) == [k |-> "str", s |-> s]

JArr(a) == [k |-> "arr", a |-> a]

JObj(o) == [k |-> "obj", o |-> o]

IsObj(j) == j.k = "obj"

IsArr(j) == j.k = "arr"

\* The pairs of object pairs o whose key is in names, in text order.
Occurrences(o, names) == SelectSeq(o, LAMBDA p : p[1] \in names)

Keys(j) == IF IsObj(j) THEN {j.o[i][1] : i \in DOMAIN j.o} ELSE {}

HasKey(j, key) == key \in Keys(j)

\* The value of the first pair named key.
Get(j, key) == Occurrences(j.o, {key})[1][2]

-----------------------------------------------------------------------------
(* Rust values *)

None == <<>>

Some(x) == <<x>>

Finite(h) == [cls |-> "finite", h |-> h]

NaN == [cls |-> "nan", h |-> 0]

Infinity == [cls |-> "inf", h |-> 1]

NegInfinity == [cls |-> "inf", h |-> -1]

IsFinite(f) == f.cls = "finite"

\* f64's PartialEq: NaN equals nothing, itself included.
F64Eq(a, b) == a.cls # "nan" /\ b.cls # "nan" /\ a = b

U16Max == 65535

Ok(v) == [ok |-> TRUE, v |-> v]

Err == [ok |-> FALSE]

-----------------------------------------------------------------------------
(* Serialize: what serde_json writes for each type *)

Pair(key, j) == << <<key, j>> >>

\* #[serde(skip_serializing_if = "Option::is_none")]: no pair for None; some is
\* what the contained value serializes to.
SkipIfNone(key, opt, some) == IF opt = None THEN <<>> ELSE Pair(key, some)

SerString(s) == JStr(s)

\* u16, u32, u64 and i64 are written as integer literals.
SerInt(n) == JInt(n)

\* serde_json writes a finite f64 with a fraction ("5.0") and a non-finite
\* one as null.
SerF64(f) == IF IsFinite(f) THEN JFloat(f.h) ELSE JNull

SerVecString(v) == JArr([i \in DOMAIN v |-> SerString(v[i])])

MarketTypeMsg ==
    {"PumpFun", "PumpSwap", "MeteoraDbc", "MeteoraDammV2", "RaydiumLaunchpad", "RaydiumCpmm"}

\* #[serde(rename_all = "snake_case")] on MarketTypeMsg.
MarketTypeName ==
    [PumpFun |-> "pump_fun", PumpSwap |-> "pump_swap", MeteoraDbc |-> "meteora_dbc",
     MeteoraDammV2 |-> "meteora_damm_v2", RaydiumLaunchpad |-> "raydium_launchpad",
     RaydiumCpmm |-> "raydium_cpmm"]

SerMarketTypeMsg(t) == JStr(MarketTypeName[t])

\* The value of the empty struct PumpFunContextMsg {}.
PumpFunContextMsg == [marker |-> "pumpfun"]

SerPumpFunContextMsg(c) == JObj(<<>>)

SerPumpSwapContextMsg(c) ==
    JObj(Pair("pool", SerString(c.pool))
         \o SkipIfNone("global_config", c.global_config, SerString(c.global_config[1])))

SerMeteoraDbcContextMsg(c) ==
    JObj(Pair("pool", SerString(c.pool))
         \o Pair("config", SerString(c.config))
         \o Pair("quote_mint", SerString(c.quote_mint)))

SerMeteoraDammV2ContextMsg(c) == JObj(Pair("pool", SerString(c.pool)))

SerRaydiumLaunchpadContextMsg(c) ==
    JObj(Pair("pool", SerString(c.pool))
         \o Pair("config", SerString(c.config))
         \o Pair("platform", SerString(c.platform))
         \o Pair("quote_mint", SerString(c.quote_mint))
         \o Pair("user_quote_account", SerString(c.user_quote_account)))

SerRaydiumCpmmContextMsg(c) ==
    JObj(Pair("pool", SerString(c.pool))
         \o Pair("config", SerString(c.config))
         \o Pair("quote_mint", SerString(c.quote_mint))
         \o Pair("user_quote_account", SerString(c.user_quote_account)))

SerMarketContextMsg(c) ==
    JObj(Pair("market_type", SerMarketTypeMsg(c.market_type))
         \o SkipIfNone("pumpfun", c.pumpfun, SerPumpFunContextMsg(c.pumpfun[1]))
         \o SkipIfNone("pumpswap", c.pumpswap, SerPumpSwapContextMsg(c.pumpswap[1]))
         \o SkipIfNone("meteora_dbc", c.meteora_dbc, SerMeteoraDbcContextMsg(c.meteora_dbc[1]))
         \o SkipIfNone("meteora_damm_v2", c.meteora_damm_v2,
                SerMeteoraDammV2ContextMsg(c.meteora_damm_v2[1]))
         \o SkipIfNone("raydium_launchpad", c.raydium_launchpad,
                SerRaydiumLaunchpadContextMsg(c.raydium_launchpad[1]))
         \o SkipIfNone("raydium_cpmm", c.raydium_cpmm,
                SerRaydiumCpmmContextMsg(c.raydium_cpmm[1])))

SerStrategyConfigMsg(s) ==
    JObj(Pair("target_profit_pct", SerF64(s.target_profit_pct))
         \o Pair("stop_loss_pct", SerF64(s.stop_loss_pct))
         \o Pair("deadline_timeout_sec", SerInt(s.deadline_timeout_sec)))

SerLimitsMsg(l) ==
    JObj(Pair("hi_capacity", SerInt(l.hi_capacity))
         \o Pair("pnl_flush_ms", SerInt(l.pnl_flush_ms))
         \o Pair("max_positions_per_session", SerInt(l.max_positions_per_session))
         \o Pair("max_wallets_per_session", SerInt(l.max_wallets_per_session))
         \o Pair("max_positions_per_wallet", SerInt(l.max_positions_per_wallet))
         \o Pair("max_sessions_per_api_key", SerInt(l.max_sessions_per_api_key)))

\* #[serde(tag = "type", rename_all = "snake_case")] on ClientMessage, with
\* #[serde(rename = "request_exit_signal")] on RequestExitSignal.
ClientTagName ==
    [Ping |-> "ping", Configure |-> "configure", UpdateStrategy |-> "update_strategy",
     ClosePosition |-> "close_position", RequestExitSignal |-> "request_exit_signal"]

SerClientMessage(m) ==
    JObj(Pair("type", JStr(ClientTagName[m.variant]))
         \o CASE m.variant = "Ping" ->
                   Pair("client_time_ms", SerInt(m.client_time_ms))
              [] m.variant = "Configure" ->
                   Pair("wallet_pubkeys", SerVecString(m.wallet_pubkeys))
                   \o Pair("strategy", SerStrategyConfigMsg(m.strategy))
              [] m.variant = "UpdateStrategy" ->
                   Pair("strategy", SerStrategyConfigMsg(m.strategy))
              [] m.variant = "ClosePosition" ->
                   SkipIfNone("position_id", m.position_id, SerInt(m.position_id[1]))
                   \o SkipIfNone("token_account", m.token_account,
                          SerString(m.token_account[1]))
              [] m.variant = "RequestExitSignal" ->
                   SkipIfNone("position_id", m.position_id, SerInt(m.position_id[1]))
                   \o SkipIfNone("token_account", m.token_account,
                          SerString(m.token_account[1]))
                   \o SkipIfNone("slippage_bps", m.slippage_bps, SerInt(m.slippage_bps[1])))

\* #[serde(tag = "type", rename_all = "snake_case")] on ServerMessage.
ServerTagName ==
    [HelloOk |-> "hello_ok", Pong |-> "pong", Error |-> "error", PnlUpdate |-> "pnl_update",
     BalanceUpdate |-> "balance_update", PositionOpened |-> "position_opened",
     PositionClosed |-> "position_closed", ExitSignalWithTx |-> "exit_signal_with_tx"]

SerServerMessage(m) ==
    JObj(Pair("type", JStr(ServerTagName[m.variant]))
         \o CASE m.variant = "HelloOk" ->
                   Pair("session_id", SerInt(m.session_id))
                   \o Pair("server_time_ms", SerInt(m.server_time_ms))
                   \o Pair("limits", SerLimitsMsg(m.limits))
              [] m.variant = "Pong" ->
                   Pair("server_time_ms", SerInt(m.server_time_ms))
              [] m.variant = "Error" ->
                   Pair("code", SerString(m.code))
                   \o Pair("message", SerString(m.message))
              [] m.variant = "PnlUpdate" ->
                   Pair("position_id", SerInt(m.position_id))
                   \o Pair("profit_units", SerInt(m.profit_units))
                   \o Pair("proceeds_units", SerInt(m.proceeds_units))
                   \o Pair("server_time_ms", SerInt(m.server_time_ms))
              [] m.variant = "BalanceUpdate" ->
                   Pair("wallet_pubkey", SerString(m.wallet_pubkey))
                   \o Pair("mint", SerString(m.mint))
                   \o SkipIfNone("token_account", m.token_account,
                          SerString(m.token_account[1]))
                   \o SkipIfNone("token_program", m.token_program,
                          SerString(m.token_program[1]))
                   \o Pair("tokens", SerInt(m.tokens))
                   \o Pair("slot", SerInt(m.slot))
              [] m.variant = "PositionOpened" ->
                   Pair("position_id", SerInt(m.position_id))
                   \o Pair("wallet_pubkey", SerString(m.wallet_pubkey))
                   \o Pair("mint", SerString(m.mint))
                   \o Pair("token_account", SerString(m.token_account))
                   \o SkipIfNone("token_program", m.token_program,
                          SerString(m.token_program[1]))
                   \o Pair("tokens", SerInt(m.tokens))
                   \o Pair("entry_quote_units", SerInt(m.entry_quote_units))
                   \o SkipIfNone("market_context", m.market_context,
                          SerMarketContextMsg(m.market_context[1]))
                   \o Pair("slot", SerInt(m.slot))
              [] m.variant = "PositionClosed" ->
                   Pair("position_id", SerInt(m.position_id))
                   \o Pair("wallet_pubkey", SerString(m.wallet_pubkey))
                   \o Pair("mint", SerString(m.mint))
                   \o SkipIfNone("token_account", m.token_account,
                          SerString(m.token_account[1]))
                   \o Pair("reason", SerString(m.reason))
                   \o Pair("slot", SerInt(m.slot))
              [] m.variant = "ExitSignalWithTx" ->
                   Pair("session_id", SerInt(m.session_id))
                   \o Pair("position_id", SerInt(m.position_id))
                   \o Pair("wallet_pubkey", SerString(m.wallet_pubkey))
                   \o Pair("mint", SerString(m.mint))
                   \o SkipIfNone("token_account", m.token_account,
                          SerString(m.token_account[1]))
                   \o SkipIfNone("token_program", m.token_program,
                          SerString(m.token_program[1]))
                   \o Pair("position_tokens", SerInt(m.position_tokens))
                   \o Pair("profit_units", SerInt(m.profit_units))
                   \o Pair("reason", SerString(m.reason))
                   \o Pair("triggered_at_ms", SerInt(m.triggered_at_ms))
                   \o SkipIfNone("market_context", m.market_context,
                          SerMarketContextMsg(m.market_context[1]))
                   \o Pair("unsigned_tx_b64", SerString(m.unsigned_tx_b64)))

\* ServerMessage::to_text: serde_json::to_string(self).
to_text(m) == SerServerMessage(m)

-----------------------------------------------------------------------------
(* Deserialize: what serde_json and the derived visitors accept *)

\* u64 and u32: an integer literal that is not negative (their upper limits lie
\* outside the integers of the model).
DeU64(j) == IF j.k = "int" /\ j.n >= 0 THEN Ok(j.n) ELSE Err

DeU16(j) == IF j.k = "int" /\ j.n >= 0 /\ j.n <= U16Max THEN Ok(j.n) ELSE Err

DeI64(j) == IF j.k = "int" THEN Ok(j.n) ELSE Err

\* f64 takes any number literal; an integer literal is converted.
DeF64(j) ==
    CASE j.k = "float" -> Ok(Finite(j.x))
      [] j.k = "int" -> Ok(Finite(2 * j.n))
      [] OTHER -> Err

DeString(j) == IF j.k = "str" THEN Ok(j.s) ELSE Err

DeVecString(j) ==
    IF IsArr(j) /\ \A i \in DOMAIN j.a : j.a[i].k = "str"
    THEN Ok([i \in DOMAIN j.a |-> j.a[i].s])
    ELSE Err

\* Option<T>: null is None; anything else must be a T, and some is what it
\* deserializes to as a T.
DeOption(j, some) ==
    IF j = JNull THEN Ok(None)
    ELSE IF some.ok THEN Ok(Some(some.v)) ELSE Err

\* A derived struct visitor reads an object by key (visit_map) or an array
\* by position (visit_seq); an array may not be longer than the struct.
StructShape(j, n) == IsObj(j) \/ (IsArr(j) /\ Len(j.a) <= n)

\* What the visitor finds for a field: no key or element at all, or a key
\* given more than once (a duplicate field).  No type deserializes from
\* either.
Absent == [k |-> "absent"]

Duplicate == [k |-> "duplicate"]

\* Mutant: of several pairs carrying a name of the field, the first is taken.
FieldFirstWins(j, i, names) ==
    IF IsObj(j)
    THEN LET occ == Occurrences(j.o, names)
         IN IF Len(occ) = 0 THEN Absent ELSE occ[1][2]
    ELSE IF i <= Len(j.a) THEN j.a[i] ELSE Absent

\* The text given for the field with these names, at position i of the
\* struct: the value of the one pair carrying one of its names, or the
\* element i of the array.
Field(j, i, names) ==
    IF IsObj(j)
    THEN LET occ == Occurrences(j.o, names)
         IN CASE Len(occ) = 0 -> Absent
              [] Len(occ) = 1 -> occ[1][2]
              [] OTHER -> Duplicate
    ELSE IF i <= Len(j.a) THEN j.a[i] ELSE Absent

\* An Option field: a missing key reads as null; a missing array element is
\* an invalid length.
OptionField(j, i, names) ==
    IF IsObj(j) /\ Field(j, i, names) = Absent THEN JNull ELSE Field(j, i, names)

\* #[serde(default)] on a u32: a missing key or array element is 0; some is
\* what the given text deserializes to.
DefaultField(j, some) == IF j = Absent THEN Ok(0) ELSE some

\* A unit variant: its name as a string, or an object of one pair whose key
\* is the name and whose value is null.
DeMarketTypeMsg(j) ==
    LET name == CASE j.k = "str" -> j.s
                  [] IsObj(j) /\ Len(j.o) = 1 /\ j.o[1][2] = JNull -> j.o[1][1]
                  [] OTHER -> ""
    IN IF \E t \in MarketTypeMsg : MarketTypeName[t] = name
       THEN Ok(CHOOSE t \in MarketTypeMsg : MarketTypeName[t] = name)
       ELSE Err

DePumpFunContextMsg(j) == IF StructShape(j, 0) THEN Ok(PumpFunContextMsg) ELSE Err

DePumpSwapContextMsg(j) ==
    LET pool == DeString(Field(j, 1, {"pool"}))
        global_config ==
            LET f == OptionField(j, 2, {"global_config"}) IN DeOption(f, DeString(f))
    IN IF StructShape(j, 2) /\ pool.ok /\ global_config.ok
       THEN Ok([pool |-> pool.v, global_config |-> global_config.v])
       ELSE Err

DeMeteoraDbcContextMsg(j) ==
    LET pool == DeString(Field(j, 1, {"pool"}))
        config == DeString(Field(j, 2, {"config"}))
        quote_mint == DeString(Field(j, 3, {"quote_mint"}))
    IN IF StructShape(j, 3) /\ pool.ok /\ config.ok /\ quote_mint.ok
       THEN Ok([pool |-> pool.v, config |-> config.v, quote_mint |-> quote_mint.v])
       ELSE Err

DeMeteoraDammV2ContextMsg(j) ==
    LET pool == DeString(Field(j, 1, {"pool"}))
    IN IF StructShape(j, 1) /\ pool.ok THEN Ok([pool |-> pool.v]) ELSE Err

DeRaydiumLaunchpadContextMsg(j) ==
    LET pool == DeString(Field(j, 1, {"pool"}))
        config == DeString(Field(j, 2, {"config"}))
        platform == DeString(Field(j, 3, {"platform"}))
        quote_mint == DeString(Field(j, 4, {"quote_mint"}))
        user_quote_account == DeString(Field(j, 5, {"user_quote_account"}))
    IN IF StructShape(j, 5) /\ pool.ok /\ config.ok /\ platform.ok /\ quote_mint.ok
          /\ user_quote_account.ok
       THEN Ok([pool |-> pool.v, config |-> config.v, platform |-> platform.v,
                quote_mint |-> quote_mint.v, user_quote_account |-> user_quote_account.v])
       ELSE Err

DeRaydiumCpmmContextMsg(j) ==
    LET pool == DeString(Field(j, 1, {"pool"}))
        config == DeString(Field(j, 2, {"config"}))
        quote_mint == DeString(Field(j, 3, {"quote_mint"}))
        user_quote_account == DeString(Field(j, 4, {"user_quote_account"}))
    IN IF StructShape(j, 4) /\ pool.ok /\ config.ok /\ quote_mint.ok /\ user_quote_account.ok
       THEN Ok([pool |-> pool.v, config |-> config.v, quote_mint |-> quote_mint.v,
                user_quote_account |-> user_quote_account.v])
       ELSE Err

DeMarketContextMsg(j) ==
    LET market_type == DeMarketTypeMsg(Field(j, 1, {"market_type"}))
        pumpfun ==
            LET f == OptionField(j, 2, {"pumpfun"}) IN DeOption(f, DePumpFunContextMsg(f))
        pumpswap ==
            LET f == OptionField(j, 3, {"pumpswap"}) IN DeOption(f, DePumpSwapContextMsg(f))
        meteora_dbc ==
            LET f == OptionField(j, 4, {"meteora_dbc"}) IN DeOption(f, DeMeteoraDbcContextMsg(f))
        meteora_damm_v2 ==
            LET f == OptionField(j, 5, {"meteora_damm_v2"})
            IN DeOption(f, DeMeteoraDammV2ContextMsg(f))
        raydium_launchpad ==
            LET f == OptionField(j, 6, {"raydium_launchpad"})
            IN DeOption(f, DeRaydiumLaunchpadContextMsg(f))
        raydium_cpmm ==
            LET f == OptionField(j, 7, {"raydium_cpmm"}) IN DeOption(f, DeRaydiumCpmmContextMsg(f))
    IN IF StructShape(j, 7) /\ market_type.ok /\ pumpfun.ok /\ pumpswap.ok /\ meteora_dbc.ok
          /\ meteora_damm_v2.ok /\ raydium_launchpad.ok /\ raydium_cpmm.ok
       THEN Ok([market_type |-> market_type.v, pumpfun |-> pumpfun.v, pumpswap |-> pumpswap.v,
                meteora_dbc |-> meteora_dbc.v, meteora_damm_v2 |-> meteora_damm_v2.v,
                raydium_launchpad |-> raydium_launchpad.v, raydium_cpmm |-> raydium_cpmm.v])
       ELSE Err

DeStrategyConfigMsg(j) ==
    LET target_profit_pct == DeF64(Field(j, 1, {"target_profit_pct"}))
        stop_loss_pct == DeF64(Field(j, 2, {"stop_loss_pct"}))
        deadline_timeout_sec == DeU64(Field(j, 3, {"deadline_timeout_sec"}))
    IN IF StructShape(j, 3) /\ target_profit_pct.ok /\ stop_loss_pct.ok
          /\ deadline_timeout_sec.ok
       THEN Ok([target_profit_pct |-> target_profit_pct.v, stop_loss_pct |-> stop_loss_pct.v,
                deadline_timeout_sec |-> deadline_timeout_sec.v])
       ELSE Err

\* Mutant: max_wallets_per_session lacks #[serde(default)].
DeLimitsMsgNoDefault(j) ==
    LET hi_capacity == DeU64(Field(j, 1, {"hi_capacity"}))
        pnl_flush_ms == DeU64(Field(j, 2, {"pnl_flush_ms"}))
        max_positions_per_session == DeU64(Field(j, 3, {"max_positions_per_session"}))
        max_wallets_per_session == DeU64(Field(j, 4, {"max_wallets_per_session"}))
        max_positions_per_wallet ==
            LET f == Field(j, 5, {"max_positions_per_wallet"}) IN DefaultField(f, DeU64(f))
        max_sessions_per_api_key ==
            LET f == Field(j, 6, {"max_sessions_per_api_key"}) IN DefaultField(f, DeU64(f))
    IN IF StructShape(j, 6) /\ hi_capacity.ok /\ pnl_flush_ms.ok
          /\ max_positions_per_session.ok /\ max_wallets_per_session.ok
          /\ max_positions_per_wallet.ok /\ max_sessions_per_api_key.ok
       THEN Ok([hi_capacity |-> hi_capacity.v, pnl_flush_ms |-> pnl_flush_ms.v,
                max_positions_per_session |-> max_positions_per_session.v,
                max_wallets_per_session |-> max_wallets_per_session.v,
                max_positions_per_wallet |-> max_positions_per_wallet.v,
                max_sessions_per_api_key |-> max_sessions_per_api_key.v])
       ELSE Err

DeLimitsMsg(j) ==
    LET hi_capacity == DeU64(Field(j, 1, {"hi_capacity"}))
        pnl_flush_ms == DeU64(Field(j, 2, {"pnl_flush_ms"}))
        max_positions_per_session == DeU64(Field(j, 3, {"max_positions_per_session"}))
        max_wallets_per_session ==
            LET f == Field(j, 4, {"max_wallets_per_session"}) IN DefaultField(f, DeU64(f))
        max_positions_per_wallet ==
            LET f == Field(j, 5, {"max_positions_per_wallet"}) IN DefaultField(f, DeU64(f))
        max_sessions_per_api_key ==
            LET f == Field(j, 6, {"max_sessions_per_api_key"}) IN DefaultField(f, DeU64(f))
    IN IF StructShape(j, 6) /\ hi_capacity.ok /\ pnl_flush_ms.ok
          /\ max_positions_per_session.ok /\ max_wallets_per_session.ok
          /\ max_positions_per_wallet.ok /\ max_sessions_per_api_key.ok
       THEN Ok([hi_capacity |-> hi_capacity.v, pnl_flush_ms |-> pnl_flush_ms.v,
                max_positions_per_session |-> max_positions_per_session.v,
                max_wallets_per_session |-> max_wallets_per_session.v,
                max_positions_per_wallet |-> max_positions_per_wallet.v,
                max_sessions_per_api_key |-> max_sessions_per_api_key.v])
       ELSE Err

\* Mutant: only the sequence form, as without the untagged WalletPubkeysField.
deserialize_wallet_pubkeysManyOnly(j) == DeVecString(j)

\* The untagged WalletPubkeysField: One(String) is tried first, then
\* Many(Vec<String>).
deserialize_wallet_pubkeys(j) ==
    LET one == DeString(j)
    IN IF one.ok THEN Ok(<<one.v>>) ELSE DeVecString(j)

\* #[serde(tag = "type")]: the tag and the rest of the message.  From an object,
\* the one pair named type (a string) and the other pairs; from an array, its
\* first element (a string) and the other elements.
TaggedContent(j) ==
    CASE IsObj(j) ->
           LET tags == Occurrences(j.o, {"type"})
           IN IF Len(tags) = 1 /\ tags[1][2].k = "str"
              THEN [ok |-> TRUE, tag |-> tags[1][2].s,
                    content |-> JObj(SelectSeq(j.o, LAMBDA p : p[1] # "type"))]
              ELSE [ok |-> FALSE, tag |-> "", content |-> JNull]
      [] IsArr(j) ->
           IF Len(j.a) >= 1 /\ j.a[1].k = "str"
           THEN [ok |-> TRUE, tag |-> j.a[1].s, content |-> JArr(Tail(j.a))]
           ELSE [ok |-> FALSE, tag |-> "", content |-> JNull]
      [] OTHER -> [ok |-> FALSE, tag |-> "", content |-> JNull]

DePing(c) ==
    LET client_time_ms == DeU64(Field(c, 1, {"client_time_ms"}))
    IN IF StructShape(c, 1) /\ client_time_ms.ok
       THEN Ok([variant |-> "Ping", client_time_ms |-> client_time_ms.v])
       ELSE Err

\* #[serde(alias = "wallet_pubkey", deserialize_with = ...)]: both names are the
\* same field.
DeConfigure(c) ==
    LET wallet_pubkeys ==
            deserialize_wallet_pubkeys(Field(c, 1, {"wallet_pubkeys", "wallet_pubkey"}))
        strategy == DeStrategyConfigMsg(Field(c, 2, {"strategy"}))
    IN IF StructShape(c, 2) /\ wallet_pubkeys.ok /\ strategy.ok
       THEN Ok([variant |-> "Configure", wallet_pubkeys |-> wallet_pubkeys.v,
                strategy |-> strategy.v])
       ELSE Err

DeUpdateStrategy(c) ==
    LET strategy == DeStrategyConfigMsg(Field(c, 1, {"strategy"}))
    IN IF StructShape(c, 1) /\ strategy.ok
       THEN Ok([variant |-> "UpdateStrategy", strategy |-> strategy.v])
       ELSE Err

\* Mutant: position_id declared u64, not Option<u64>.
DeClosePositionRequired(c) ==
    LET position_id == DeU64(Field(c, 1, {"position_id"}))
        token_account ==
            LET f == OptionField(c, 2, {"token_account"}) IN DeOption(f, DeString(f))
    IN IF StructShape(c, 2) /\ position_id.ok /\ token_account.ok
       THEN Ok([variant |-> "ClosePosition", position_id |-> Some(position_id.v),
                token_account |-> token_account.v])
       ELSE Err

DeClosePosition(c) ==
    LET position_id == LET f == OptionField(c, 1, {"position_id"}) IN DeOption(f, DeU64(f))
        token_account ==
            LET f == OptionField(c, 2, {"token_account"}) IN DeOption(f, DeString(f))
    IN IF StructShape(c, 2) /\ position_id.ok /\ token_account.ok
       THEN Ok([variant |-> "ClosePosition", position_id |-> position_id.v,
                token_account |-> token_account.v])
       ELSE Err

DeRequestExitSignal(c) ==
    LET position_id == LET f == OptionField(c, 1, {"position_id"}) IN DeOption(f, DeU64(f))
        token_account ==
            LET f == OptionField(c, 2, {"token_account"}) IN DeOption(f, DeString(f))
        slippage_bps == LET f == OptionField(c, 3, {"slippage_bps"}) IN DeOption(f, DeU16(f))
    IN IF StructShape(c, 3) /\ position_id.ok /\ token_account.ok /\ slippage_bps.ok
       THEN Ok([variant |-> "RequestExitSignal", position_id |-> position_id.v,
                token_account |-> token_account.v, slippage_bps |-> slippage_bps.v])
       ELSE Err

\* Mutant: the alias sell_now is not declared.
ClientVariantOfNoAlias(tag) ==
    CASE tag = "ping" -> "Ping"
      [] tag = "configure" -> "Configure"
      [] tag = "update_strategy" -> "UpdateStrategy"
      [] tag = "close_position" -> "ClosePosition"
      [] tag = "request_exit_signal" -> "RequestExitSignal"
      [] OTHER -> "unknown variant"

\* The variant a tag names: the snake_case names, and the alias sell_now of
\* request_exit_signal.
ClientVariantOf(tag) ==
    CASE tag = "ping" -> "Ping"
      [] tag = "configure" -> "Configure"
      [] tag = "update_strategy" -> "UpdateStrategy"
      [] tag = "close_position" -> "ClosePosition"
      [] tag \in {"request_exit_signal", "sell_now"} -> "RequestExitSignal"
      [] OTHER -> "unknown variant"

DeClientMessage(j) ==
    LET t == TaggedContent(j)
        variant == ClientVariantOf(t.tag)
    IN IF ~t.ok THEN Err
       ELSE CASE variant = "Ping" -> DePing(t.content)
              [] variant = "Configure" -> DeConfigure(t.content)
              [] variant = "UpdateStrategy" -> DeUpdateStrategy(t.content)
              [] variant = "ClosePosition" -> DeClosePosition(t.content)
              [] variant = "RequestExitSignal" -> DeRequestExitSignal(t.content)
              [] OTHER -> Err

\* ClientMessage::from_text: serde_json::from_str(text).
from_text(text) == DeClientMessage(text)

DeHelloOk(c) ==
    LET session_id == DeU64(Field(c, 1, {"session_id"}))
        server_time_ms == DeU64(Field(c, 2, {"server_time_ms"}))
        limits == DeLimitsMsg(Field(c, 3, {"limits"}))
    IN IF StructShape(c, 3) /\ session_id.ok /\ server_time_ms.ok /\ limits.ok
       THEN Ok([variant |-> "HelloOk", session_id |-> session_id.v,
                server_time_ms |-> server_time_ms.v, limits |-> limits.v])
       ELSE Err

DePong(c) ==
    LET server_time_ms == DeU64(Field(c, 1, {"server_time_ms"}))
    IN IF StructShape(c, 1) /\ server_time_ms.ok
       THEN Ok([variant |-> "Pong", server_time_ms |-> server_time_ms.v])
       ELSE Err

DeError(c) ==
    LET code == DeString(Field(c, 1, {"code"}))
        message == DeString(Field(c, 2, {"message"}))
    IN IF StructShape(c, 2) /\ code.ok /\ message.ok
       THEN Ok([variant |-> "Error", code |-> code.v, message |-> message.v])
       ELSE Err

DePnlUpdate(c) ==
    LET position_id == DeU64(Field(c, 1, {"position_id"}))
        profit_units == DeI64(Field(c, 2, {"profit_units"}))
        proceeds_units == DeU64(Field(c, 3, {"proceeds_units"}))
        server_time_ms == DeU64(Field(c, 4, {"server_time_ms"}))
    IN IF StructShape(c, 4) /\ position_id.ok /\ profit_units.ok /\ proceeds_units.ok
          /\ server_time_ms.ok
       THEN Ok([variant |-> "PnlUpdate", position_id |-> position_id.v,
                profit_units |-> profit_units.v, proceeds_units |-> proceeds_units.v,
                server_time_ms |-> server_time_ms.v])
       ELSE Err

DeBalanceUpdate(c) ==
    LET wallet_pubkey == DeString(Field(c, 1, {"wallet_pubkey"}))
        mint == DeString(Field(c, 2, {"mint"}))
        token_account ==
            LET f == OptionField(c, 3, {"token_account"}) IN DeOption(f, DeString(f))
        token_program ==
            LET f == OptionField(c, 4, {"token_program"}) IN DeOption(f, DeString(f))
        tokens == DeU64(Field(c, 5, {"tokens"}))
        slot == DeU64(Field(c, 6, {"slot"}))
    IN IF StructShape(c, 6) /\ wallet_pubkey.ok /\ mint.ok /\ token_account.ok
          /\ token_program.ok /\ tokens.ok /\ slot.ok
       THEN Ok([variant |-> "BalanceUpdate", wallet_pubkey |-> wallet_pubkey.v,
                mint |-> mint.v, token_account |-> token_account.v,
                token_program |-> token_program.v, tokens |-> tokens.v, slot |-> slot.v])
       ELSE Err

DePositionOpened(c) ==
    LET position_id == DeU64(Field(c, 1, {"position_id"}))
        wallet_pubkey == DeString(Field(c, 2, {"wallet_pubkey"}))
        mint == DeString(Field(c, 3, {"mint"}))
        token_account == DeString(Field(c, 4, {"token_account"}))
        token_program ==
            LET f == OptionField(c, 5, {"token_program"}) IN DeOption(f, DeString(f))
        tokens == DeU64(Field(c, 6, {"tokens"}))
        entry_quote_units == DeU64(Field(c, 7, {"entry_quote_units"}))
        market_context ==
            LET f == OptionField(c, 8, {"market_context"}) IN DeOption(f, DeMarketContextMsg(f))
        slot == DeU64(Field(c, 9, {"slot"}))
    IN IF StructShape(c, 9) /\ position_id.ok /\ wallet_pubkey.ok /\ mint.ok
          /\ token_account.ok /\ token_program.ok /\ tokens.ok /\ entry_quote_units.ok
          /\ market_context.ok /\ slot.ok
       THEN Ok([variant |-> "PositionOpened", position_id |-> position_id.v,
                wallet_pubkey |-> wallet_pubkey.v, mint |-> mint.v,
                token_account |-> token_account.v, token_program |-> token_program.v,
                tokens |-> tokens.v, entry_quote_units |-> entry_quote_units.v,
                market_context |-> market_context.v, slot |-> slot.v])
       ELSE Err

DePositionClosed(c) ==
    LET position_id == DeU64(Field(c, 1, {"position_id"}))
        wallet_pubkey == DeString(Field(c, 2, {"wallet_pubkey"}))
        mint == DeString(Field(c, 3, {"mint"}))
        token_account ==
            LET f == OptionField(c, 4, {"token_account"}) IN DeOption(f, DeString(f))
        reason == DeString(Field(c, 5, {"reason"}))
        slot == DeU64(Field(c, 6, {"slot"}))
    IN IF StructShape(c, 6) /\ position_id.ok /\ wallet_pubkey.ok /\ mint.ok
          /\ token_account.ok /\ reason.ok /\ slot.ok
       THEN Ok([variant |-> "PositionClosed", position_id |-> position_id.v,
                wallet_pubkey |-> wallet_pubkey.v, mint |-> mint.v,
                token_account |-> token_account.v, reason |-> reason.v, slot |-> slot.v])
       ELSE Err

DeExitSignalWithTx(c) ==
    LET session_id == DeU64(Field(c, 1, {"session_id"}))
        position_id == DeU64(Field(c, 2, {"position_id"}))
        wallet_pubkey == DeString(Field(c, 3, {"wallet_pubkey"}))
        mint == DeString(Field(c, 4, {"mint"}))
        token_account ==
            LET f == OptionField(c, 5, {"token_account"}) IN DeOption(f, DeString(f))
        token_program ==
            LET f == OptionField(c, 6, {"token_program"}) IN DeOption(f, DeString(f))
        position_tokens == DeU64(Field(c, 7, {"position_tokens"}))
        profit_units == DeI64(Field(c, 8, {"profit_units"}))
        reason == DeString(Field(c, 9, {"reason"}))
        triggered_at_ms == DeU64(Field(c, 10, {"triggered_at_ms"}))
        market_context ==
            LET f == OptionField(c, 11, {"market_context"}) IN DeOption(f, DeMarketContextMsg(f))
        unsigned_tx_b64 == DeString(Field(c, 12, {"unsigned_tx_b64"}))
    IN IF StructShape(c, 12) /\ session_id.ok /\ position_id.ok /\ wallet_pubkey.ok
          /\ mint.ok /\ token_account.ok /\ token_program.ok /\ position_tokens.ok
          /\ profit_units.ok /\ reason.ok /\ triggered_at_ms.ok /\ market_context.ok
          /\ unsigned_tx_b64.ok
       THEN Ok([variant |-> "ExitSignalWithTx", session_id |-> session_id.v,
                position_id |-> position_id.v, wallet_pubkey |-> wallet_pubkey.v,
                mint |-> mint.v, token_account |-> token_account.v,
                token_program |-> token_program.v, position_tokens |-> position_tokens.v,
                profit_units |-> profit_units.v, reason |-> reason.v,
                triggered_at_ms |-> triggered_at_ms.v, market_context |-> market_context.v,
                unsigned_tx_b64 |-> unsigned_tx_b64.v])
       ELSE Err

\* Mutant: an unknown tag falls back to a variant (#[serde(other)]-like).
ServerVariantOfFallback(tag) ==
    IF \E v \in DOMAIN ServerTagName : ServerTagName[v] = tag
    THEN CHOOSE v \in DOMAIN ServerTagName : ServerTagName[v] = tag
    ELSE "Pong"

ServerVariantOf(tag) ==
    IF \E v \in DOMAIN ServerTagName : ServerTagName[v] = tag
    THEN CHOOSE v \in DOMAIN ServerTagName : ServerTagName[v] = tag
    ELSE "unknown variant"

DeServerMessage(j) ==
    LET t == TaggedContent(j)
        variant == ServerVariantOf(t.tag)
    IN IF ~t.ok THEN Err
       ELSE CASE variant = "HelloOk" -> DeHelloOk(t.content)
              [] variant = "Pong" -> DePong(t.content)
              [] variant = "Error" -> DeError(t.content)
              [] variant = "PnlUpdate" -> DePnlUpdate(t.content)
              [] variant = "BalanceUpdate" -> DeBalanceUpdate(t.content)
              [] variant = "PositionOpened" -> DePositionOpened(t.content)
              [] variant = "PositionClosed" -> DePositionClosed(t.content)
              [] variant = "ExitSignalWithTx" -> DeExitSignalWithTx(t.content)
              [] OTHER -> Err

-----------------------------------------------------------------------------
(* The values the senders construct *)

\* The longest wallet list a Configure carries.
MaxWallets == 2

\* The largest session id, position id, amount, slot and time.
MaxId == 1

Addresses == {"A", "B"}

OptOf(S) == {None} \cup {Some(x) : x \in S}

U64Values == 0 .. MaxId

I64Values == (0 - MaxId) .. MaxId

U16Values == {0, U16Max}

WalletLists == UNION {[1 .. n -> Addresses] : n \in 0 .. MaxWallets}

StrategyConfigValues ==
    [target_profit_pct : {Finite(10), Finite(-3), NaN, Infinity, NegInfinity},
     stop_loss_pct : {Finite(3)}, deadline_timeout_sec : U64Values]
    \cup [target_profit_pct : {Finite(10)}, stop_loss_pct : {NaN}, deadline_timeout_sec : {MaxId}]

LimitsValues ==
    [hi_capacity : {1}, pnl_flush_ms : {1}, max_positions_per_session : {MaxId},
     max_wallets_per_session : U64Values, max_positions_per_wallet : U64Values,
     max_sessions_per_api_key : U64Values]

PumpSwapContextValues == [pool : {"A"}, global_config : OptOf({"B"})]

MeteoraDbcContextValues == [pool : {"A"}, config : {"B"}, quote_mint : {"A"}]

MeteoraDammV2ContextValues == [pool : {"A"}]

RaydiumLaunchpadContextValues ==
    [pool : {"A"}, config : {"B"}, platform : {"A"}, quote_mint : {"B"},
     user_quote_account : {"A"}]

RaydiumCpmmContextValues ==
    [pool : {"A"}, config : {"B"}, quote_mint : {"A"}, user_quote_account : {"B"}]

\* Every MarketContextMsg the struct can hold: any market type with any
\* subset of the six payloads.
MarketContextValues ==
    [market_type : MarketTypeMsg, pumpfun : OptOf({PumpFunContextMsg}),
     pumpswap : OptOf(PumpSwapContextValues), meteora_dbc : OptOf(MeteoraDbcContextValues),
     meteora_damm_v2 : OptOf(MeteoraDammV2ContextValues),
     raydium_launchpad : OptOf(RaydiumLaunchpadContextValues),
     raydium_cpmm : OptOf(RaydiumCpmmContextValues)]

\* The name of the payload field meant for a market type.
PayloadField ==
    [PumpFun |-> "pumpfun", PumpSwap |-> "pumpswap", MeteoraDbc |-> "meteora_dbc",
     MeteoraDammV2 |-> "meteora_damm_v2", RaydiumLaunchpad |-> "raydium_launchpad",
     RaydiumCpmm |-> "raydium_cpmm"]

PayloadFields == {PayloadField[t] : t \in MarketTypeMsg}

PresentPayloads(c) == {f \in PayloadFields : c[f] # None}

\* The contexts a producer should build: the one payload of the market type.
WellFormedContexts ==
    {c \in MarketContextValues : PresentPayloads(c) = {PayloadField[c.market_type]}}

\* The contexts carried inside server messages: the well-formed ones, one
\* without payload, one with a payload of another market and one with two.
CarriedContexts ==
    WellFormedContexts
    \cup {c \in MarketContextValues :
            /\ c.market_type = "PumpFun"
            /\ PresentPayloads(c) \in {{}, {"meteora_dbc"}, {"pumpfun", "raydium_cpmm"}}
            /\ c.pumpswap = None}

ClientMessage ==
    [variant : {"Ping"}, client_time_ms : U64Values]
    \cup [variant : {"Configure"}, wallet_pubkeys : WalletLists, strategy : StrategyConfigValues]
    \cup [variant : {"UpdateStrategy"}, strategy : StrategyConfigValues]
    \cup [variant : {"ClosePosition"}, position_id : OptOf(U64Values),
          token_account : OptOf(Addresses)]
    \cup [variant : {"RequestExitSignal"}, position_id : OptOf(U64Values),
          token_account : OptOf(Addresses), slippage_bps : OptOf(U16Values)]

ServerMessage ==
    [variant : {"HelloOk"}, session_id : U64Values, server_time_ms : {MaxId},
     limits : LimitsValues]
    \cup [variant : {"Pong"}, server_time_ms : U64Values]
    \cup [variant : {"Error"}, code : Addresses, message : Addresses]
    \cup [variant : {"PnlUpdate"}, position_id : U64Values, profit_units : I64Values,
          proceeds_units : {MaxId}, server_time_ms : {MaxId}]
    \cup [variant : {"BalanceUpdate"}, wallet_pubkey : {"A"}, mint : {"B"},
          token_account : OptOf(Addresses), token_program : OptOf({"B"}),
          tokens : {MaxId}, slot : U64Values]
    \cup [variant : {"PositionOpened"}, position_id : {MaxId}, wallet_pubkey : {"A"},
          mint : {"B"}, token_account : {"A"}, token_program : OptOf({"B"}),
          tokens : {MaxId}, entry_quote_units : {0}, market_context : OptOf(CarriedContexts),
          slot : {MaxId}]
    \cup [variant : {"PositionClosed"}, position_id : U64Values, wallet_pubkey : {"A"},
          mint : {"B"}, token_account : OptOf(Addresses), reason : {"A"}, slot : {MaxId}]
    \cup [variant : {"ExitSignalWithTx"}, session_id : {0}, position_id : {MaxId},
          wallet_pubkey : {"A"}, mint : {"B"}, token_account : OptOf({"A"}),
          token_program : OptOf({"B"}), position_tokens : {MaxId}, profit_units : I64Values,
          reason : {"B"}, triggered_at_ms : {MaxId}, market_context : OptOf(WellFormedContexts),
          unsigned_tx_b64 : {"A"}]

-----------------------------------------------------------------------------
(* The fields each record declares *)

\* The fields that are neither Option nor #[serde(default)].
RequiredKeys ==
    [Ping |-> {"client_time_ms"},
     Configure |-> {"wallet_pubkeys", "strategy"},
     UpdateStrategy |-> {"strategy"},
     ClosePosition |-> {},
     RequestExitSignal |-> {},
     HelloOk |-> {"session_id", "server_time_ms", "limits"},
     Pong |-> {"server_time_ms"},
     Error |-> {"code", "message"},
     PnlUpdate |-> {"position_id", "profit_units", "proceeds_units", "server_time_ms"},
     BalanceUpdate |-> {"wallet_pubkey", "mint", "tokens", "slot"},
     PositionOpened |-> {"position_id", "wallet_pubkey", "mint", "token_account", "tokens",
                         "entry_quote_units", "slot"},
     PositionClosed |-> {"position_id", "wallet_pubkey", "mint", "reason", "slot"},
     ExitSignalWithTx |-> {"session_id", "position_id", "wallet_pubkey", "mint",
                           "position_tokens", "profit_units", "reason", "triggered_at_ms",
                           "unsigned_tx_b64"},
     StrategyConfigMsg |-> {"target_profit_pct", "stop_loss_pct", "deadline_timeout_sec"},
     LimitsMsg |-> {"hi_capacity", "pnl_flush_ms", "max_positions_per_session"},
     MarketContextMsg |-> {"market_type"},
     PumpFunContextMsg |-> {},
     PumpSwapContextMsg |-> {"pool"},
     MeteoraDbcContextMsg |-> {"pool", "config", "quote_mint"},
     MeteoraDammV2ContextMsg |-> {"pool"},
     RaydiumLaunchpadContextMsg |-> {"pool", "config", "platform", "quote_mint",
                                     "user_quote_account"},
     RaydiumCpmmContextMsg |-> {"pool", "config", "quote_mint", "user_quote_account"}]

\* The Option fields, all #[serde(skip_serializing_if = "Option::is_none")].
OptionalKeys ==
    [Ping |-> {},
     Configure |-> {},
     UpdateStrategy |-> {},
     ClosePosition |-> {"position_id", "token_account"},
     RequestExitSignal |-> {"position_id", "token_account", "slippage_bps"},
     HelloOk |-> {},
     Pong |-> {},
     Error |-> {},
     PnlUpdate |-> {},
     BalanceUpdate |-> {"token_account", "token_program"},
     PositionOpened |-> {"token_program", "market_context"},
     PositionClosed |-> {"token_account"},
     ExitSignalWithTx |-> {"token_account", "token_program", "market_context"},
     StrategyConfigMsg |-> {},
     LimitsMsg |-> {},
     MarketContextMsg |-> {"pumpfun", "pumpswap", "meteora_dbc", "meteora_damm_v2",
                           "raydium_launchpad", "raydium_cpmm"},
     PumpFunContextMsg |-> {},
     PumpSwapContextMsg |-> {"global_config"},
     MeteoraDbcContextMsg |-> {},
     MeteoraDammV2ContextMsg |-> {},
     RaydiumLaunchpadContextMsg |-> {},
     RaydiumCpmmContextMsg |-> {}]

\* The #[serde(default)] fields of LimitsMsg.
DefaultKeys ==
    {"max_wallets_per_session", "max_positions_per_wallet", "max_sessions_per_api_key"}

\* The record type of the field a key names.
RecordOfKey ==
    [strategy |-> "StrategyConfigMsg", limits |-> "LimitsMsg",
     market_context |-> "MarketContextMsg", pumpfun |-> "PumpFunContextMsg",
     pumpswap |-> "PumpSwapContextMsg", meteora_dbc |-> "MeteoraDbcContextMsg",
     meteora_damm_v2 |-> "MeteoraDammV2ContextMsg",
     raydium_launchpad |-> "RaydiumLaunchpadContextMsg",
     raydium_cpmm |-> "RaydiumCpmmContextMsg"]

-----------------------------------------------------------------------------
(* The texts a receiver is handed: the text the encoder wrote, or a text    *)
(* that another producer (an older build, a faulty peer) wrote, which       *)
(* differs from it by one edit at one place.                                *)

RECURSIVE At(_, _)
\* The value found by following the keys of path from j.
At(j, path) == IF path = <<>> THEN j ELSE At(Get(j, Head(path)), Tail(path))

\* Object j with New(v) in place of the value v of every pair named in keys.
SetKeys(j, keys, New(_)) ==
    JObj([i \in DOMAIN j.o |->
            IF j.o[i][1] \in keys THEN <<j.o[i][1], New(j.o[i][2])>> ELSE j.o[i]])

RenameKeys(j, keys, to) ==
    JObj([i \in DOMAIN j.o |-> IF j.o[i][1] \in keys THEN <<to, j.o[i][2]>> ELSE j.o[i]])

\* A value of a JSON kind that no field holding v accepts.
WrongKind(v) ==
    CASE v.k \in {"str", "arr"} -> JInt(1)
      [] OTHER -> JStr("x")

FirstElement(v) == v.a[1]

VariantObject(v) == JObj(Pair(v.s, JNull))

Sample(kind) ==
    CASE kind = "null" -> JNull
      [] kind = "bool" -> JBool(TRUE)
      [] kind = "int" -> JInt(1)
      [] kind = "str" -> JStr("ping")
      [] kind = "arr" -> JArr(<<>>)

\* The values a producer may put under the legacy name wallet_pubkey next to
\* wallet_pubkeys in object j: one address, a sequence, or the same list again.
AliasSamples == {"string", "other", "sequence", "empty", "same"}

AliasSample(name, j) ==
    CASE name = "string" -> JStr("A")
      [] name = "other" -> JStr("B")
      [] name = "sequence" -> JArr(<<JStr("B")>>)
      [] name = "empty" -> JArr(<<>>)
      [] name = "same" -> Get(j, "wallet_pubkeys")

Edit(path, op, keys, arg) == [path |-> path, op |-> op, keys |-> keys, arg |-> arg]

Keep == Edit(<<>>, "keep", {}, "")

ApplyOp(j, e) ==
    CASE e.op = "keep" -> j
      [] e.op = "drop" -> JObj(SelectSeq(j.o, LAMBDA p : p[1] \notin e.keys))
      [] e.op = "null" -> SetKeys(j, e.keys, LAMBDA v : JNull)
      [] e.op = "wrong" -> SetKeys(j, e.keys, WrongKind)
      [] e.op = "float" -> SetKeys(j, e.keys, LAMBDA v : JFloat(3))
      [] e.op = "int" -> SetKeys(j, e.keys, LAMBDA v : JInt(5))
      [] e.op = "negative" -> SetKeys(j, e.keys, LAMBDA v : JInt(-1))
      [] e.op = "big" -> SetKeys(j, e.keys, LAMBDA v : JInt(U16Max + 1))
      [] e.op = "variant_object" -> SetKeys(j, e.keys, VariantObject)
      [] e.op = "unwrap" -> SetKeys(j, e.keys, FirstElement)
      [] e.op = "rename" -> RenameKeys(j, e.keys, e.arg)
      [] e.op = "legacy" -> RenameKeys(SetKeys(j, e.keys, FirstElement), e.keys, e.arg)
      [] e.op = "add_null" -> JObj(j.o \o Pair(e.arg, JNull))
      [] e.op = "unknown" -> JObj(Pair("extra", JInt(1)) \o j.o)
      [] e.op = "duplicate" -> JObj(j.o \o Occurrences(j.o, e.keys))
      [] e.op = "alias_before" -> JObj(Pair("wallet_pubkey", AliasSample(e.arg, j)) \o j.o)
      [] e.op = "alias_after" -> JObj(j.o \o Pair("wallet_pubkey", AliasSample(e.arg, j)))
      [] e.op = "reverse" -> JObj([i \in DOMAIN j.o |-> j.o[Len(j.o) + 1 - i]])
      [] e.op = "positional" -> JArr([i \in DOMAIN j.o |-> j.o[i][2]])
      [] e.op = "replace" -> Sample(e.arg)
      [] e.op = "tag" -> SetKeys(j, {"type"}, LAMBDA v : JStr(e.arg))

RECURSIVE ApplyAt(_, _, _)
ApplyAt(j, path, e) ==
    IF path = <<>> THEN ApplyOp(j, e)
    ELSE SetKeys(j, {Head(path)}, LAMBDA v : ApplyAt(v, Tail(path), e))

ApplyEdit(j, e) == ApplyAt(j, e.path, e)

ObjKeys(j) == {key \in Keys(j) : IsObj(Get(j, key))}

\* The places of j that hold an object: j, its fields, their fields.
Paths(j) ==
    {<<>>} \cup {<<k1>> : k1 \in ObjKeys(j)}
    \cup UNION {{<<k1, k2>> : k2 \in ObjKeys(Get(j, k1))} : k1 \in ObjKeys(j)}

RecordAt(top, path) == IF path = <<>> THEN top ELSE RecordOfKey[path[Len(path)]]

KeysOfKind(j, kind) == {key \in Keys(j) : Get(j, key).k = kind}

TagSamples ==
    {"sell_now", "request_exit_signal", "close_position", "pong", "unknown_thing", "Ping", ""}

\* The edits of the object j found at path, which holds a record rec.
LocalEdits(path, j, rec) ==
    {Edit(path, op, {key}, "") : op \in {"drop", "null", "wrong", "duplicate"}, key \in Keys(j)}
    \cup {Edit(path, op, {key}, "") :
            op \in {"float", "negative", "big"}, key \in KeysOfKind(j, "int")}
    \cup {Edit(path, "int", {key}, "") : key \in KeysOfKind(j, "float")}
    \cup {Edit(path, "add_null", {}, key) : key \in OptionalKeys[rec] \ Keys(j)}
    \cup {Edit(path, op, {}, "") : op \in {"reverse", "positional", "unknown"}}
    \cup (IF rec = "LimitsMsg"
          THEN {Edit(path, "drop", K, "") : K \in SUBSET Keys(j) \ {{}}}
          ELSE {})
    \cup (IF rec = "MarketContextMsg"
          THEN {Edit(path, "variant_object", {"market_type"}, "")}
          ELSE {})
    \cup (IF rec = "Configure"
          THEN {Edit(path, "rename", {"wallet_pubkeys"}, "wallet_pubkey")}
               \cup {Edit(path, op, {"wallet_pubkeys"}, sample) :
                       op \in {"alias_before", "alias_after"}, sample \in AliasSamples}
               \cup (IF Len(Get(j, "wallet_pubkeys").a) = 1
                     THEN {Edit(path, "unwrap", {"wallet_pubkeys"}, ""),
                           Edit(path, "legacy", {"wallet_pubkeys"}, "wallet_pubkey")}
                     ELSE {})
          ELSE {})

TopEdits(rec) ==
    {Keep}
    \cup {Edit(<<>>, "replace", {}, kind) : kind \in {"null", "bool", "int", "str", "arr"}}
    \cup (IF rec = "MarketContextMsg" THEN {}
          ELSE {Edit(<<>>, "tag", {"type"}, tag) : tag \in TagSamples})

\* Every edit of text j, the encoding of a record rec.
EditsFor(j, rec) ==
    TopEdits(rec)
    \cup UNION {LocalEdits(path, At(j, path), RecordAt(rec, path)) : path \in Paths(j)}

-----------------------------------------------------------------------------
(* The state machine: a sender constructs a value and encodes it; a         *)
(* receiver decodes a text.  Nothing is kept between calls.                 *)

Sides == {"client", "server", "context"}

ValuesOf(s) ==
    CASE s = "client" -> ClientMessage
      [] s = "server" -> ServerMessage
      [] s = "context" -> MarketContextValues

\* The name of the record a value of a side is.
RecordOf(s, v) == IF s = "context" THEN "MarketContextMsg" ELSE v.variant

Init ==
    /\ side \in Sides
    /\ value \in ValuesOf(side)
    /\ wire = JNull
    /\ edit = Keep
    /\ input = JNull
    /\ decoded = Err
    /\ reencoded = JNull
    /\ pc = "constructed"

\* serde_json::to_string(&ClientMessage)
EncodeClient ==
    /\ pc = "constructed" /\ side = "client"
    /\ wire' = SerClientMessage(value)
    /\ pc' = "encoded"
    /\ UNCHANGED <<side, value, edit, input, decoded, reencoded>>

\* ServerMessage::to_text
EncodeServer ==
    /\ pc = "constructed" /\ side = "server"
    /\ wire' = to_text(value)
    /\ pc' = "encoded"
    /\ UNCHANGED <<side, value, edit, input, decoded, reencoded>>

\* serde_json::to_string(&MarketContextMsg)
EncodeContext ==
    /\ pc = "constructed" /\ side = "context"
    /\ wire' = SerMarketContextMsg(value)
    /\ pc' = "encoded"
    /\ UNCHANGED <<side, value, edit, input, decoded, reencoded>>

\* ClientMessage::from_text
DecodeClient ==
    /\ pc = "encoded" /\ side = "client"
    /\ \E e \in EditsFor(wire, RecordOf(side, value)) :
          /\ edit' = e
          /\ input' = ApplyEdit(wire, e)
          /\ decoded' = from_text(input')
    /\ pc' = "decoded"
    /\ UNCHANGED <<side, value, wire, reencoded>>

\* serde_json::from_str::<ServerMessage>
DecodeServer ==
    /\ pc = "encoded" /\ side = "server"
    /\ \E e \in EditsFor(wire, RecordOf(side, value)) :
          /\ edit' = e
          /\ input' = ApplyEdit(wire, e)
          /\ decoded' = DeServerMessage(input')
    /\ pc' = "decoded"
    /\ UNCHANGED <<side, value, wire, reencoded>>

\* serde_json::from_str::<MarketContextMsg>
DecodeContext ==
    /\ pc = "encoded" /\ side = "context"
    /\ \E e \in EditsFor(wire, RecordOf(side, value)) :
          /\ edit' = e
          /\ input' = ApplyEdit(wire, e)
          /\ decoded' = DeMarketContextMsg(input')
    /\ pc' = "decoded"
    /\ UNCHANGED <<side, value, wire, reencoded>>

SerOf(s, v) ==
    CASE s = "client" -> SerClientMessage(v)
      [] s = "server" -> to_text(v)
      [] s = "context" -> SerMarketContextMsg(v)

\* The receiver encodes the value it decoded (serde_json::to_value(&msg) in
\* the tests of the aliases).
Reencode ==
    /\ pc = "decoded" /\ decoded.ok
    /\ reencoded' = SerOf(side, decoded.v)
    /\ pc' = "reencoded"
    /\ UNCHANGED <<side, value, wire, edit, input, decoded>>

Next ==
    \/ EncodeClient
    \/ EncodeServer
    \/ EncodeContext
    \/ DecodeClient
    \/ DecodeServer
    \/ DecodeContext
    \/ Reencode

Spec == Init /\ [][Next]_vars

-----------------------------------------------------------------------------
(* #[derive(PartialEq)]: field by field, f64 by F64Eq *)

StrategyEq(a, b) ==
    /\ F64Eq(a.target_profit_pct, b.target_profit_pct)
    /\ F64Eq(a.stop_loss_pct, b.stop_loss_pct)
    /\ a.deadline_timeout_sec = b.deadline_timeout_sec

MessageEq(s, a, b) ==
    IF s = "client" /\ a.variant \in {"Configure", "UpdateStrategy"} /\ b.variant = a.variant
    THEN /\ StrategyEq(a.strategy, b.strategy)
         /\ [a EXCEPT !.strategy = 0] = [b EXCEPT !.strategy = 0]
    ELSE a = b

-----------------------------------------------------------------------------
(* Vocabulary of the properties *)

\* The receiver was handed the very text the encoder wrote.
RoundTripped == pc \in {"decoded", "reencoded"} /\ edit = Keep

Decoded == pc \in {"decoded", "reencoded"}

HasStrategy == side = "client" /\ value.variant \in {"Configure", "UpdateStrategy"}

\* Both percentages of the value's strategy, if it has one, are finite.
FiniteFloats ==
    HasStrategy =>
        IsFinite(value.strategy.target_profit_pct) /\ IsFinite(value.strategy.stop_loss_pct)

\* The edit is op at the top of the text.
TopEdit(op) == edit.op = op /\ edit.path = <<>>

\* The record whose object the edit changes.
EditedRecord == RecordAt(RecordOf(side, value), edit.path)

-----------------------------------------------------------------------------
(* C1 *)

\* C1 as stated: whatever value was constructed, decoding the text the encoder
\* wrote succeeds and yields a value equal to it.
C1_RoundTripEveryValue ==
    RoundTripped => decoded.ok /\ MessageEq(side, value, decoded.v)

\* The extent of the failure of C1: for every ClientMessage, ServerMessage and
\* MarketContextMsg whose f64 fields are finite, decoding the text the encoder
\* wrote succeeds and yields a value equal to the original; when a percentage
\* is NaN or infinite, the encoder writes null for it and the text does not
\* decode.  (A finite f64 is taken to be read back from its text exactly.)
C1_RoundTripFinite ==
    RoundTripped =>
        IF FiniteFloats
        THEN decoded.ok /\ MessageEq(side, value, decoded.v)
        ELSE ~decoded.ok

\* A server message carrying a market context, two present options and a
\* negative profit has made the round trip.
C1_Witness ==
    /\ RoundTripped /\ side = "server" /\ value.variant = "ExitSignalWithTx"
    /\ value.market_context # None /\ value.token_account # None
    /\ value.token_program = None /\ value.profit_units < 0
    /\ decoded = Ok(value)

-----------------------------------------------------------------------------
(* C2 *)

\* C2: a configure text that carries the address list under the legacy name
\* wallet_pubkey, as the single string A or as a sequence, or the single string A
\* under wallet_pubkeys, decodes to what the text with wallet_pubkeys holding the
\* sequence decodes to, with the same addresses; the encoding of every decoded
\* Configure has the key wallet_pubkeys holding a sequence of all its addresses
\* and has no key wallet_pubkey.
C2_WalletAliasEquivalence ==
    /\ (Decoded /\ HasStrategy /\ value.variant = "Configure"
        /\ edit.op \in {"legacy", "rename", "unwrap"})
       => /\ decoded = from_text(wire)
          /\ FiniteFloats =>
                decoded.ok /\ decoded.v.wallet_pubkeys = value.wallet_pubkeys
    /\ (pc = "reencoded" /\ side = "client" /\ decoded.v.variant = "Configure")
       => /\ HasKey(reencoded, "wallet_pubkeys")
          /\ Get(reencoded, "wallet_pubkeys") = SerVecString(decoded.v.wallet_pubkeys)
          /\ IsArr(Get(reencoded, "wallet_pubkeys"))
          /\ ~HasKey(reencoded, "wallet_pubkey")

\* The legacy text {"type":"configure","wallet_pubkey":"A","strategy":...} was
\* decoded to the one-address list and encoded again.
C2_Witness ==
    /\ pc = "reencoded" /\ side = "client" /\ edit.op = "legacy"
    /\ HasKey(input, "wallet_pubkey") /\ Get(input, "wallet_pubkey") = JStr("A")
    /\ ~HasKey(input, "wallet_pubkeys")
    /\ decoded.ok /\ decoded.v.wallet_pubkeys = <<"A">>
    /\ Get(reencoded, "wallet_pubkeys") = JArr(<<JStr("A")>>)

-----------------------------------------------------------------------------
(* C3 *)

RetaggedTo(tag) == TopEdit("tag") /\ edit.arg = tag

\* C3: a client text whose type is sell_now decodes to what the same text with
\* the type request_exit_signal decodes to, which for the fields of a
\* RequestExitSignal, whichever are present, is that value; the encoding of
\* every decoded RequestExitSignal has the type request_exit_signal.
C3_LegacyTagEquivalence ==
    /\ (Decoded /\ side = "client" /\ RetaggedTo("sell_now"))
       => /\ decoded
               = from_text(ApplyEdit(wire, Edit(<<>>, "tag", {"type"}, "request_exit_signal")))
          /\ decoded.ok => decoded.v.variant = "RequestExitSignal"
          /\ value.variant = "RequestExitSignal" => decoded = Ok(value)
    /\ (pc = "reencoded" /\ side = "client" /\ decoded.v.variant = "RequestExitSignal")
       => Get(reencoded, "type") = JStr("request_exit_signal")

\* {"type":"sell_now","position_id":1,"slippage_bps":65535} was decoded and
\* encoded again.
C3_Witness ==
    /\ pc = "reencoded" /\ side = "client" /\ RetaggedTo("sell_now")
    /\ Get(input, "type") = JStr("sell_now")
    /\ decoded = Ok([variant |-> "RequestExitSignal", position_id |-> Some(1),
                     token_account |-> None, slippage_bps |-> Some(U16Max)])
    /\ Get(reencoded, "type") = JStr("request_exit_signal")

-----------------------------------------------------------------------------
(* C4 *)

\* No pair of object j holds null.
NoNullPair(j) == \A i \in DOMAIN j.o : j.o[i][2] # JNull

\* C4 as stated: the encoding of a MarketContextMsg has the key market_type and,
\* of the six payload keys, the one of its market type and no other.
C4_OnlyMatchingPayload ==
    (side = "context" /\ pc # "constructed")
    => /\ HasKey(wire, "market_type")
       /\ Keys(wire) \cap PayloadFields = {PayloadField[value.market_type]}
       /\ NoNullPair(wire)

\* Text j has market_type and the payload keys of the payloads c holds, no
\* other key and no null.
EmitsPresentPayloads(j, c) ==
    /\ IsObj(j)
    /\ Keys(j) = {"market_type"} \cup PresentPayloads(c)
    /\ Get(j, "market_type") = JStr(MarketTypeName[c.market_type])
    /\ NoNullPair(j)

\* What the encoder does instead of C4: the encoding of a MarketContextMsg,
\* constructed or obtained from decode, alone or inside a server message, has
\* the key market_type and, of the six payload keys, exactly those whose field
\* is present in the value, whether or not they are the one of market_type; the
\* key of an absent field is not in the output, and no key holds null.
C4_EmitsPresentPayloads ==
    /\ (side = "context" /\ pc # "constructed") => EmitsPresentPayloads(wire, value)
    /\ (side = "context" /\ pc = "reencoded") => EmitsPresentPayloads(reencoded, decoded.v)
    /\ (side = "server" /\ pc # "constructed"
        /\ value.variant \in {"PositionOpened", "ExitSignalWithTx"}
        /\ value.market_context # None)
       => EmitsPresentPayloads(Get(wire, "market_context"), value.market_context[1])

\* A context of market type pump_fun that was decoded with the payloads
\* meteora_dbc and raydium_cpmm has been encoded again, with both.
C4_Witness ==
    /\ side = "context" /\ pc = "reencoded"
    /\ decoded.v.market_type = "PumpFun"
    /\ PresentPayloads(decoded.v) = {"meteora_dbc", "raydium_cpmm"}
    /\ Keys(reencoded) = {"market_type", "meteora_dbc", "raydium_cpmm"}

-----------------------------------------------------------------------------
(* C5 *)

RECURSIVE TypedAt(_, _)
\* The record of value v that the object at path encodes.
TypedAt(v, path) ==
    IF path = <<>> THEN v
    ELSE IF Head(path) \in {"strategy", "limits"}
         THEN TypedAt(v[Head(path)], Tail(path))
         ELSE TypedAt(v[Head(path)][1], Tail(path))

RECURSIVE WithNone(_, _, _)
\* Value v with the Option field key of its record at path absent.
WithNone(v, path, key) ==
    IF path = <<>> THEN [v EXCEPT ![key] = None]
    ELSE IF Head(path) \in {"strategy", "limits"}
         THEN [v EXCEPT ![Head(path)] = WithNone(v[Head(path)], Tail(path), key)]
         ELSE [v EXCEPT ![Head(path)] = Some(WithNone(v[Head(path)][1], Tail(path), key))]

TagKeys(path) == IF path = <<>> /\ side # "context" THEN {"type"} ELSE {}

\* The keys the encoding of record rec holding typed has: the tag, the
\* required and defaulted fields, the present Option fields.
ExpectedKeys(path, rec, typed) ==
    TagKeys(path) \cup RequiredKeys[rec]
    \cup (IF rec = "LimitsMsg" THEN DefaultKeys ELSE {})
    \cup {key \in OptionalKeys[rec] : typed[key] # None}

\* The edit removes the key of an Option field, or puts null under it.
MakesOptionAbsent ==
    \/ /\ edit.op \in {"drop", "null"}
       /\ edit.keys # {} /\ edit.keys \subseteq OptionalKeys[EditedRecord]
    \/ edit.op = "add_null"

EditedKey == IF edit.op = "add_null" THEN edit.arg ELSE CHOOSE key \in edit.keys : TRUE

\* C5: in the encoding of every record, at the top or nested, the keys are the
\* type tag, the required fields and the present Option fields, and no Option
\* key holds null; a text in which the key of an Option field is missing, or
\* holds null, decodes to the value with that field absent.
C5_OptionalFieldOmission ==
    /\ pc # "constructed"
       => \A path \in Paths(wire) :
             LET rec == RecordAt(RecordOf(side, value), path)
             IN /\ Keys(At(wire, path)) = ExpectedKeys(path, rec, TypedAt(value, path))
                /\ \A key \in OptionalKeys[rec] \cap Keys(At(wire, path)) :
                      Get(At(wire, path), key) # JNull
    /\ (Decoded /\ MakesOptionAbsent)
       => decoded = Ok(WithNone(value, edit.path, EditedKey))

\* {"type":"close_position","position_id":null,"token_account":"A"} decoded
\* to a ClosePosition without position_id.
C5_Witness ==
    /\ Decoded /\ side = "client" /\ value.variant = "ClosePosition"
    /\ value.position_id = Some(1) /\ value.token_account = Some("A")
    /\ TopEdit("null") /\ edit.keys = {"position_id"}
    /\ Get(input, "position_id") = JNull
    /\ decoded = Ok([variant |-> "ClosePosition", position_id |-> None,
                     token_account |-> Some("A")])

-----------------------------------------------------------------------------
(* C6 *)

\* Limits l with 0 in the fields named in keys.
Zeroed(l, keys) == [key \in DOMAIN l |-> IF key \in keys THEN 0 ELSE l[key]]

DropsFromLimits ==
    /\ Decoded /\ side = "server" /\ value.variant = "HelloOk"
    /\ edit.path = <<"limits">> /\ edit.op = "drop"

\* C6: a hello_ok text whose limits object lacks any of max_wallets_per_session,
\* max_positions_per_wallet and max_sessions_per_api_key, and nothing else,
\* decodes, with 0 for each missing one and every other field as written; a text
\* whose limits object lacks hi_capacity, pnl_flush_ms or
\* max_positions_per_session does not decode.
C6_LimitsDefaultFilling ==
    DropsFromLimits =>
        IF edit.keys \subseteq DefaultKeys
        THEN decoded = Ok([value EXCEPT !.limits = Zeroed(value.limits, edit.keys)])
        ELSE ~decoded.ok

\* A hello_ok whose limits had 1 in the three newer fields was decoded from a
\* text without them.
C6_Witness ==
    /\ DropsFromLimits /\ edit.keys = DefaultKeys
    /\ \A key \in DefaultKeys : value.limits[key] = 1 /\ ~HasKey(Get(input, "limits"), key)
    /\ decoded.ok
    /\ \A key \in DefaultKeys : decoded.v.limits[key] = 0
    /\ decoded.v.limits.hi_capacity = 1

-----------------------------------------------------------------------------
(* C7 *)

\* The tags a union accepts: its variants' names and, for ClientMessage, the
\* alias.
ValidTags(s) ==
    IF s = "client"
    THEN {ClientTagName[v] : v \in DOMAIN ClientTagName} \cup {"sell_now"}
    ELSE {ServerTagName[v] : v \in DOMAIN ServerTagName}

\* The text is an object without a type, or whose type is no tag of the union.
LacksValidTag ==
    /\ IsObj(input)
    /\ \/ ~HasKey(input, "type")
       \/ \A tag \in ValidTags(side) : Get(input, "type") # JStr(tag)

\* C7: a ClientMessage or ServerMessage text that is an object whose type is
\* missing, or is not a variant name of that union or (ClientMessage) sell_now,
\* does not decode, whatever its other fields.
C7_UnknownTagRejected ==
    (Decoded /\ side \in {"client", "server"} /\ LacksValidTag) => ~decoded.ok

\* {"type":"unknown_thing"} was handed to ClientMessage::from_text.
C7_Witness ==
    /\ Decoded /\ side = "client"
    /\ input = JObj(Pair("type", JStr("unknown_thing")))
    /\ ~decoded.ok

-----------------------------------------------------------------------------
(* C8 *)

\* The edit takes a required field of the edited record away, or gives it a
\* value of a JSON kind its type does not have (null, a string for a number or
\* a record, a number for a string or a list, a fraction for an integer).
BreaksRequiredField ==
    /\ edit.op \in {"drop", "null", "wrong", "float"}
    /\ edit.keys \cap RequiredKeys[EditedRecord] # {}

\* The edit writes the required record strategy or limits as an array of its
\* field values instead of an object.
RecordAsArray == edit.op = "positional" /\ edit.path \in {<<"strategy">>, <<"limits">>}

\* C8: a ClientMessage or ServerMessage text that is an object with a valid tag
\* in which a required field of the variant, or of a record nested in it, is
\* missing or has the wrong shape does not decode.
C8_AllOrNothingDecode ==
    (Decoded /\ side \in {"client", "server"} /\ IsObj(input) /\ ~LacksValidTag
     /\ (BreaksRequiredField \/ RecordAsArray))
    => ~decoded.ok

-----------------------------------------------------------------------------
(* C9 *)

OnPayload == Len(edit.path) = 1 /\ edit.path[1] \in PayloadFields

\* The edit leaves a payload present whose shape is not that of its record: an
\* object in which a required key is missing or holds a value of another kind,
\* a string, or an array.
PayloadShapeMismatch ==
    \/ OnPayload /\ BreaksRequiredField
    \/ OnPayload /\ edit.op = "positional"
    \/ edit.path = <<>> /\ edit.op = "wrong" /\ edit.keys \subseteq PayloadFields

\* C9: a MarketContextMsg text with a valid market_type and well-shaped payloads
\* under any subset of the six payload keys decodes to the value in which exactly
\* those payloads are present; a text in which a present payload's shape does
\* not match its record type does not decode.
C9_LenientContextDecode ==
    /\ (Decoded /\ side = "context" /\ edit = Keep)
       => decoded = Ok(value) /\ PresentPayloads(decoded.v) = Keys(input) \ {"market_type"}
    /\ (Decoded /\ side = "context" /\ PayloadShapeMismatch) => ~decoded.ok

-----------------------------------------------------------------------------
(* C10 *)

\* C10: a ClientMessage or ServerMessage text whose top-level value is not an
\* object (an array, a string, a number, a boolean, null) does not decode.
C10_TopLevelObjectOnly ==
    (Decoded /\ side \in {"client", "server"} /\ ~IsObj(input)) => ~decoded.ok

-----------------------------------------------------------------------------
(* C11 *)

\* The text handed to ClientMessage::from_text is an object tagged configure
\* that carries both the key wallet_pubkeys and the legacy key wallet_pubkey.
CarriesBothWalletKeys ==
    /\ Decoded /\ side = "client" /\ IsObj(input)
    /\ TaggedContent(input).ok /\ TaggedContent(input).tag = "configure"
    /\ HasKey(input, "wallet_pubkeys") /\ HasKey(input, "wallet_pubkey")

\* C11: a configure message that carries both wallet_pubkeys and the legacy
\* wallet_pubkey does not decode, whatever the two values are and whichever key
\* comes first: the two names are one field, given twice, and no Configure
\* value is produced from either.
C11_BothWalletKeysRejected == CarriesBothWalletKeys => ~decoded.ok

\* A configure text with wallet_pubkeys ["B"] followed by wallet_pubkey "A",
\* each of which decodes on its own next to this finite strategy, has been
\* refused.
C11_Witness ==
    /\ CarriesBothWalletKeys
    /\ edit.op = "alias_after"
    /\ Get(input, "wallet_pubkeys") = JArr(<<JStr("B")>>)
    /\ Get(input, "wallet_pubkey") = JStr("A")
    /\ Get(input, "strategy") = Get(wire, "strategy") /\ FiniteFloats
    /\ ~decoded.ok

=============================================================================
